---- MODULE Spec2Model ----
(***************************************************************************)
(* Model of the XLR8 SPI SRAM control library (src/src/XLR8SPISRAM.h).     *)
(* The program is one 8-bit memory-mapped control register and six inline  *)
(* read-modify-write mutators.  The register is the only program state;    *)
(* the remaining variables record the calls made so far so that properties *)
(* of call sequences can be stated.                                        *)
(***************************************************************************)
EXTENDS Integers, Naturals, FiniteSets, Sequences, TLC

VARIABLES
    XLR8SPISRAMMEMCR,  \* the control register, _SFR_MEM8(0xF0)
    op,                \* name of the most recent mutator call ("none" before any)
    arg,               \* its divider argument (0 for the argument-less mutators)
    pair,              \* how the last call relates to the one before it
    lastMode,          \* most recent mode setter called ("none" before any)
    allLegal,          \* every clock_divider argument so far was in 0..7
    extGhost,          \* bit 0 as left by the latest enable/disable call, or initially
    s1                 \* progress of the call sequence S1 started at register value 0

vars == <<XLR8SPISRAMMEMCR, op, arg, pair, lastMode, allLegal, extGhost, s1>>

(***************************************************************************)
(* Widths of the C types involved.                                         *)
(***************************************************************************)
RegBits == 8
DividerBits == 8
MaxClockCode == 7
SPI_CLOCK_DIV2 == 4

Uint8 == 0 .. (2^RegBits - 1)
Dividers == 0 .. (2^DividerBits - 1)

\* conversion of an int expression to uint8_t
ToUint8(x) == x % (2^RegBits)

\* the bit of weight w (a power of two) of a non-negative integer
Bit(x, w) == (x \div w) % 2

\* one result bit of each C bitwise operator
AndBit(x, y) == x * y
OrBit(x, y) == x + y - x * y
XorBit(x, y) == (x + y) % 2

\* C operators &, | and ^ ; every operand in this program is below 2^RegBits
\* when the operator is applied (the shifted divider is cast to uint8_t first)
BitAnd(a, b) ==
    AndBit(Bit(a, 1), Bit(b, 1)) + 2 * AndBit(Bit(a, 2), Bit(b, 2))
    + 4 * AndBit(Bit(a, 4), Bit(b, 4)) + 8 * AndBit(Bit(a, 8), Bit(b, 8))
    + 16 * AndBit(Bit(a, 16), Bit(b, 16)) + 32 * AndBit(Bit(a, 32), Bit(b, 32))
    + 64 * AndBit(Bit(a, 64), Bit(b, 64)) + 128 * AndBit(Bit(a, 128), Bit(b, 128))
BitOr(a, b) ==
    OrBit(Bit(a, 1), Bit(b, 1)) + 2 * OrBit(Bit(a, 2), Bit(b, 2))
    + 4 * OrBit(Bit(a, 4), Bit(b, 4)) + 8 * OrBit(Bit(a, 8), Bit(b, 8))
    + 16 * OrBit(Bit(a, 16), Bit(b, 16)) + 32 * OrBit(Bit(a, 32), Bit(b, 32))
    + 64 * OrBit(Bit(a, 64), Bit(b, 64)) + 128 * OrBit(Bit(a, 128), Bit(b, 128))
BitXor(a, b) ==
    XorBit(Bit(a, 1), Bit(b, 1)) + 2 * XorBit(Bit(a, 2), Bit(b, 2))
    + 4 * XorBit(Bit(a, 4), Bit(b, 4)) + 8 * XorBit(Bit(a, 8), Bit(b, 8))
    + 16 * XorBit(Bit(a, 16), Bit(b, 16)) + 32 * XorBit(Bit(a, 32), Bit(b, 32))
    + 64 * XorBit(Bit(a, 64), Bit(b, 64)) + 128 * XorBit(Bit(a, 128), Bit(b, 128))
\* divider << 1 on an operand promoted to int (at most 510, no overflow)
ShiftLeft1(d) == d * 2

(***************************************************************************)
(* Register layout: [7:6] reserved, [5:4] sram mode, [3:1] spi speed,      *)
(* [0] extended address enable.                                            *)
(***************************************************************************)
ReservedField(v) == v \div 64
ModeField(v) == (v \div 16) % 4
ClockField(v) == (v \div 2) % 8
ExtBit(v) == v % 2

\* sram mode encodings in bits 5:4: byte=00, page=10, seq=01
ModeCode(o) == IF o = "page_mode" THEN 2
               ELSE IF o = "sequential_mode" THEN 1
               ELSE 0

(***************************************************************************)
(* The value each mutator stores, as a function of the value it loads.     *)
(***************************************************************************)
byte_mode_value(v) == ToUint8(BitAnd(v, 15))

page_mode_swapped(v) == ToUint8(BitOr(BitAnd(v, 15), 16))
page_mode_value(v) == ToUint8(BitOr(BitAnd(v, 15), 32))

sequential_mode_orOnly(v) == ToUint8(BitOr(v, 16))
sequential_mode_value(v) == ToUint8(BitOr(BitAnd(v, 15), 16))

clock_divider_noShift(v, divider) == ToUint8(BitOr(BitAnd(v, 49), ToUint8(divider)))
clock_divider_dropExt(v, divider) == ToUint8(BitOr(BitAnd(v, 48), ToUint8(ShiftLeft1(divider))))
clock_divider_dropMode(v, divider) == ToUint8(BitOr(BitAnd(v, 1), ToUint8(ShiftLeft1(divider))))
clock_divider_value(v, divider) == ToUint8(BitOr(BitAnd(v, 49), ToUint8(ShiftLeft1(divider))))

extended_address_enable_toggle(v) == ToUint8(BitXor(v, 1))
extended_address_enable_value(v) == ToUint8(BitOr(v, 1))

extended_address_disable_keepReserved(v) == ToUint8(BitAnd(v, 254))
extended_address_disable_clearMode(v) == ToUint8(BitAnd(v, 14))
extended_address_disable_value(v) == ToUint8(BitAnd(v, 62))

(***************************************************************************)
(* Call bookkeeping.                                                       *)
(***************************************************************************)
ModeSetters == {"byte_mode", "page_mode", "sequential_mode"}
ExtSetters == {"extended_address_enable", "extended_address_disable"}

Group(o) == IF o \in ModeSetters THEN "mode"
            ELSE IF o \in ExtSetters THEN "ext"
            ELSE IF o = "clock_divider" THEN "clock"
            ELSE "none"

PairKind(o1, a1, o2, a2) ==
    IF o1 = "none" THEN "first"
    ELSE IF o1 = o2 /\ a1 = a2 THEN "repeat"
    ELSE IF Group(o1) # Group(o2) /\ a1 <= MaxClockCode /\ a2 <= MaxClockCode THEN "cross"
    ELSE "other"

S1Step(s, v, o, a) ==
    IF o = "sequential_mode" /\ v = 0 THEN 1
    ELSE IF s = 1 /\ o = "clock_divider" /\ a = SPI_CLOCK_DIV2 THEN 2
    ELSE IF s = 2 /\ o = "extended_address_enable" THEN 3
    ELSE 0

Record(o, a) ==
    /\ op' = o
    /\ arg' = a
    /\ pair' = PairKind(op, arg, o, a)
    /\ lastMode' = IF o \in ModeSetters THEN o ELSE lastMode
    /\ allLegal' = (allLegal /\ a <= MaxClockCode)
    /\ extGhost' = IF o = "extended_address_enable" THEN 1
                   ELSE IF o = "extended_address_disable" THEN 0
                   ELSE extGhost
    /\ s1' = S1Step(s1, XLR8SPISRAMMEMCR, o, a)

(***************************************************************************)
(* Initial state: the register holds whatever the hardware or other        *)
(* firmware left in it; the constructor does not touch it.                 *)
(***************************************************************************)
Init ==
    /\ XLR8SPISRAMMEMCR \in Uint8
    /\ op = "none"
    /\ arg = 0
    /\ pair = "none"
    /\ lastMode = "none"
    /\ allLegal = TRUE
    /\ extGhost = XLR8SPISRAMMEMCR % 2
    /\ s1 = 0

byte_mode ==
    /\ XLR8SPISRAMMEMCR' = byte_mode_value(XLR8SPISRAMMEMCR)
    /\ Record("byte_mode", 0)

page_mode ==
    /\ XLR8SPISRAMMEMCR' = page_mode_value(XLR8SPISRAMMEMCR)
    /\ Record("page_mode", 0)

sequential_mode ==
    /\ XLR8SPISRAMMEMCR' = sequential_mode_value(XLR8SPISRAMMEMCR)
    /\ Record("sequential_mode", 0)

clock_divider ==
    \E divider \in Dividers :
        /\ XLR8SPISRAMMEMCR' = clock_divider_value(XLR8SPISRAMMEMCR, divider)
        /\ Record("clock_divider", divider)

extended_address_enable ==
    /\ XLR8SPISRAMMEMCR' = extended_address_enable_value(XLR8SPISRAMMEMCR)
    /\ Record("extended_address_enable", 0)

extended_address_disable ==
    /\ XLR8SPISRAMMEMCR' = extended_address_disable_value(XLR8SPISRAMMEMCR)
    /\ Record("extended_address_disable", 0)

Next ==
    \/ byte_mode
    \/ page_mode
    \/ sequential_mode
    \/ clock_divider
    \/ extended_address_enable
    \/ extended_address_disable

Spec == Init /\ [][Next]_vars

TypeOK ==
    /\ XLR8SPISRAMMEMCR \in Uint8
    /\ op \in ModeSetters \cup ExtSetters \cup {"clock_divider", "none"}
    /\ arg \in Dividers
    /\ pair \in {"none", "first", "repeat", "cross", "other"}
    /\ lastMode \in ModeSetters \cup {"none"}
    /\ allLegal \in BOOLEAN
    /\ extGhost \in {0, 1}
    /\ s1 \in 0 .. 3

\* value left in the register by the call o(a) made on register value v
Apply(o, a, v) ==
    IF o = "byte_mode" THEN byte_mode_value(v)
    ELSE IF o = "page_mode" THEN page_mode_value(v)
    ELSE IF o = "sequential_mode" THEN sequential_mode_value(v)
    ELSE IF o = "clock_divider" THEN clock_divider_value(v, a)
    ELSE IF o = "extended_address_enable" THEN extended_address_enable_value(v)
    ELSE IF o = "extended_address_disable" THEN extended_address_disable_value(v)
    ELSE v

\* the calls whose arguments are within the documented ranges
LegalCalls ==
    {<<o, 0>> : o \in ModeSetters \cup ExtSetters}
        \cup {<<"clock_divider", c>> : c \in 0 .. MaxClockCode}

\* the field written by the call o(a) holds the value the call asked for
FieldSet(o, a, v) ==
    IF o \in ModeSetters THEN ModeField(v) = ModeCode(o)
    ELSE IF o = "clock_divider" THEN ClockField(v) = a
    ELSE IF o = "extended_address_enable" THEN ExtBit(v) = 1
    ELSE ExtBit(v) = 0

(***************************************************************************)
(* Properties.  In an action property the unprimed register is the prior   *)
(* value v, op' and arg' name the call made, and the primed register is    *)
(* the value the call leaves.                                              *)
(***************************************************************************)

\* C1: for every prior value v each mode setter leaves (v & 0x0F) | code:
\* bits 5:4 are 00 (byte), 10 (page), 01 (sequential), bits 7:6 are zero
\* and bits 3:0 are those of v.
C1_ModeSetterResult ==
    [][op' \in ModeSetters =>
          /\ ModeField(XLR8SPISRAMMEMCR') = ModeCode(op')
          /\ ReservedField(XLR8SPISRAMMEMCR') = 0
          /\ XLR8SPISRAMMEMCR' % 16 = XLR8SPISRAMMEMCR % 16]_vars

C1_Witness ==
    /\ op = "page_mode"
    /\ pair = "first"
    /\ XLR8SPISRAMMEMCR = 47

\* C2: for every prior value v and code c in 0..7, clock_divider(c) leaves
\* bits 3:1 equal to c, bits 5:4 and bit 0 as in v, and bits 7:6 zero.
C2_ClockDividerPlacement ==
    [][(op' = "clock_divider" /\ arg' <= MaxClockCode) =>
          /\ ClockField(XLR8SPISRAMMEMCR') = arg'
          /\ ModeField(XLR8SPISRAMMEMCR') = ModeField(XLR8SPISRAMMEMCR)
          /\ ExtBit(XLR8SPISRAMMEMCR') = ExtBit(XLR8SPISRAMMEMCR)
          /\ ReservedField(XLR8SPISRAMMEMCR') = 0]_vars

C2_Witness ==
    /\ op = "clock_divider"
    /\ arg = 5
    /\ pair = "first"
    /\ XLR8SPISRAMMEMCR = 59

\* C3: extended_address_enable() leaves bit 0 set and bits 7:1 as in v;
\* extended_address_disable() leaves bit 0 clear, bits 5:1 as in v and
\* bits 7:6 zero.
C3_ExtendedAddressResult ==
    [][/\ op' = "extended_address_enable" =>
             /\ ExtBit(XLR8SPISRAMMEMCR') = 1
             /\ XLR8SPISRAMMEMCR' \div 2 = XLR8SPISRAMMEMCR \div 2
       /\ op' = "extended_address_disable" =>
             /\ ExtBit(XLR8SPISRAMMEMCR') = 0
             /\ (XLR8SPISRAMMEMCR' \div 2) % 32 = (XLR8SPISRAMMEMCR \div 2) % 32
             /\ ReservedField(XLR8SPISRAMMEMCR') = 0]_vars

C3_Witness ==
    /\ op = "extended_address_disable"
    /\ pair = "first"
    /\ XLR8SPISRAMMEMCR = 62

\* C4: calling any mutator a second time in a row, with the same argument,
\* leaves the register as the first call left it.
C4_Idempotent ==
    [][(op' = op /\ arg' = arg) => XLR8SPISRAMMEMCR' = XLR8SPISRAMMEMCR]_vars

C4_Witness ==
    /\ pair = "repeat"
    /\ op = "clock_divider"
    /\ arg = 200

C6_DividerTruncated ==
    [][op' = "clock_divider" =>
          /\ ClockField(XLR8SPISRAMMEMCR') = arg' % 8
          /\ ModeField(XLR8SPISRAMMEMCR') = ModeField(XLR8SPISRAMMEMCR)
          /\ ReservedField(XLR8SPISRAMMEMCR') = 0]_vars

\* C7: bit 0 is unchanged by the mode setters and by clock_divider(d) for
\* every 8-bit d, so after any call sequence bit 0 is what the most recent
\* enable/disable call left, or its initial value if there was none.
C7_ExtBitIndependent ==
    /\ [](ExtBit(XLR8SPISRAMMEMCR) = extGhost)
    /\ [][op' \in ModeSetters \cup {"clock_divider"} =>
             ExtBit(XLR8SPISRAMMEMCR') = ExtBit(XLR8SPISRAMMEMCR)]_vars

C7_Witness ==
    /\ op = "clock_divider"
    /\ arg = 255
    /\ pair = "other"
    /\ extGhost = 1

\* C8: after any call sequence with at least one mode setter and all
\* clock_divider arguments in 0..7, bits 5:4 are never 11 and equal the
\* code of the most recently called mode setter.
C8_ModeExclusive ==
    (lastMode # "none" /\ allLegal) =>
        /\ ModeField(XLR8SPISRAMMEMCR) # 3
        /\ ModeField(XLR8SPISRAMMEMCR) = ModeCode(lastMode)

C8_Witness ==
    /\ lastMode = "sequential_mode"
    /\ allLegal
    /\ op = "clock_divider"
    /\ arg = MaxClockCode
    /\ pair = "repeat"

\* C9: from register value 0x00 the calls sequential_mode();
\* clock_divider(4); extended_address_enable() end with the value 0x19.
C9_ScenarioS1 ==
    s1 = 3 => XLR8SPISRAMMEMCR = 25

C9_Witness ==
    /\ s1 = 3
    /\ op = "extended_address_enable"

\* C10: two mutators of different fields, clock codes in 0..7, give the
\* same final value in either order; that value holds both field updates
\* and has bits 7:6 zero.
C10_DifferentFieldsCommute ==
    [][arg' <= MaxClockCode =>
          \A c \in LegalCalls :
              Group(c[1]) # Group(op') =>
                  LET thenC == Apply(c[1], c[2], XLR8SPISRAMMEMCR')
                      cThen == Apply(op', arg', Apply(c[1], c[2], XLR8SPISRAMMEMCR))
                  IN  /\ thenC = cThen
                      /\ ReservedField(thenC) = 0
                      /\ FieldSet(op', arg', thenC)
                      /\ FieldSet(c[1], c[2], thenC)]_vars

C10_Witness ==
    /\ pair = "cross"
    /\ op = "extended_address_disable"
    /\ lastMode = "page_mode"
    /\ allLegal
    /\ XLR8SPISRAMMEMCR = 42
====
